---- MODULE Spec2Model ----
(***************************************************************************)
(* DEGIRO-to-Ghostfolio: the callback of parse() in src/src/index.ts.      *)
(* One pass over the CSV records builds exportFile.activities; a symbol    *)
(* lookup is issued per relevant record; the export file is written when   *)
(* no lookup answered 401.                                                 *)
(*                                                                         *)
(* Strings are TLA+ strings handled by what the JavaScript string          *)
(* operations do (toLocaleLowerCase, indexOf, match, replace, parseFloat). *)
(* Amounts, fees and unit prices are fixed-point numbers in thousandths    *)
(* (1.88 is 1880), which is exact for the amounts of the bounded inputs    *)
(* (at most three decimals).                                               *)
(***************************************************************************)
EXTENDS Integers, Sequences, FiniteSets, TLC

VARIABLES
    records,      \* records: DeGiroRecord[] handed to the callback
    known,        \* the lookup service: the ISINs it maps to a ticker
    pc,           \* position of the callback
    bearer,       \* bearer token ("" until fetched)
    idx,          \* loop index (0-based, as in the code)
    activities,   \* exportFile.activities
    errorExport,  \* errorExport
    lookups,      \* log of the lookups issued: the idx of each
    snapshots,    \* history: activities as each iteration began
    output        \* the writes of ghostfolio-degiro.json, in order

vars == <<records, known, pc, bearer, idx, activities, errorExport,
          lookups, snapshots, output>>

-----------------------------------------------------------------------------
(* Bounds of the model.                                                    *)

MaxRecords == 3
MaxCore == 4
MaxPairs == 3
MaxNoise == 3
MaxSkips == 3

-----------------------------------------------------------------------------
(* JavaScript string and number operations, as the code uses them.         *)

Min(S) == CHOOSE x \in S : \A y \in S : x <= y

Abs(x) == IF x < 0 THEN -x ELSE x

Digits == {"0", "1", "2", "3", "4", "5", "6", "7", "8", "9"}

DigitVal(c) ==
    CASE c = "0" -> 0 [] c = "1" -> 1 [] c = "2" -> 2 [] c = "3" -> 3
      [] c = "4" -> 4 [] c = "5" -> 5 [] c = "6" -> 6 [] c = "7" -> 7
      [] c = "8" -> 8 [] c = "9" -> 9

CharAt(s, i) == IF i >= 1 /\ i <= Len(s) THEN SubSeq(s, i, i) ELSE ""

UpperToLower ==
    [c \in {"A", "B", "C", "D", "E", "F", "G", "H", "I", "J", "K", "L", "M",
            "N", "O", "P", "Q", "R", "S", "T", "U", "V", "W", "X", "Y", "Z"} |->
        CASE c = "A" -> "a" [] c = "B" -> "b" [] c = "C" -> "c" [] c = "D" -> "d"
          [] c = "E" -> "e" [] c = "F" -> "f" [] c = "G" -> "g" [] c = "H" -> "h"
          [] c = "I" -> "i" [] c = "J" -> "j" [] c = "K" -> "k" [] c = "L" -> "l"
          [] c = "M" -> "m" [] c = "N" -> "n" [] c = "O" -> "o" [] c = "P" -> "p"
          [] c = "Q" -> "q" [] c = "R" -> "r" [] c = "S" -> "s" [] c = "T" -> "t"
          [] c = "U" -> "u" [] c = "V" -> "v" [] c = "W" -> "w" [] c = "X" -> "x"
          [] c = "Y" -> "y" [] c = "Z" -> "z"]

RECURSIVE ToLocaleLowerCase(_)
\* String.prototype.toLocaleLowerCase on the letters A-Z.
ToLocaleLowerCase(s) ==
    IF s = "" THEN ""
    ELSE LET c == SubSeq(s, 1, 1)
         IN (IF c \in DOMAIN UpperToLower THEN UpperToLower[c] ELSE c)
                \o ToLocaleLowerCase(SubSeq(s, 2, Len(s)))

\* String.prototype.indexOf: the 0-based index of the first occurrence, or -1.
IndexOf(s, p) ==
    LET hits == {i \in 0..(Len(s) - Len(p)) : SubSeq(s, i + 1, i + Len(p)) = p}
    IN IF hits = {} THEN -1 ELSE Min(hits)

RECURSIVE DigitRun(_, _)
\* The longest run of digits of s that starts at 1-based position i: [\d]+ is greedy.
DigitRun(s, i) ==
    IF CharAt(s, i) \in Digits THEN CharAt(s, i) \o DigitRun(s, i + 1) ELSE ""

RECURSIVE ParseDigits(_)
\* The number a run of digits denotes.
ParseDigits(d) ==
    IF d = "" THEN 0
    ELSE 10 * ParseDigits(SubSeq(d, 1, Len(d) - 1)) + DigitVal(SubSeq(d, Len(d), Len(d)))

\* description.match(/(<verb>([\d]+))/), verb being "verkoop " or "koop ":
\* <<>> for null, else <<m[0], m[1], m[2]>> of the leftmost match.
RegexMatch(s, verb) ==
    LET hits == {i \in 0..(Len(s) - Len(verb)) :
                    /\ SubSeq(s, i + 1, i + Len(verb)) = verb
                    /\ CharAt(s, i + Len(verb) + 1) \in Digits}
    IN IF hits = {} THEN <<>>
       ELSE LET i == Min(hits)
                count == DigitRun(s, i + Len(verb) + 1)
            IN <<verb \o count, verb \o count, count>>

\* String.prototype.replace(a, b) with a string pattern: the first occurrence only.
ReplaceFirst(s, a, b) ==
    LET i == IndexOf(s, a)
    IN IF i = -1 THEN s
       ELSE SubSeq(s, 1, i) \o b \o SubSeq(s, i + Len(a) + 1, Len(s))

\* parseFloat of [-]digits[.digits], in thousandths; it stops at the first
\* character that does not continue the number.
ParseFloat(s) ==
    LET neg == CharAt(s, 1) = "-"
        from == IF neg THEN 2 ELSE 1
        whole == DigitRun(s, from)
        dot == from + Len(whole)
        frac == IF CharAt(s, dot) = "." THEN DigitRun(s, dot + 1) ELSE ""
        frac3 == SubSeq(frac \o "000", 1, 3)
        magnitude == 1000 * ParseDigits(whole) + ParseDigits(frac3)
    IN IF neg THEN -magnitude ELSE magnitude

\* Math.abs(parseFloat(record.amount.replace(',', '.')))
AbsAmount(record) == Abs(ParseFloat(ReplaceFirst(record.amount, ",", ".")))

\* parseFloat((totalAmount / numberShares).toFixed(3)): to three decimals, half up.
UnitPriceOf(totalAmount, numberShares) ==
    (2 * totalAmount + numberShares) \div (2 * numberShares)

UtcOffset == "+00:00"

\* dayjs(`${date} ${time}:00`, "DD-MM-YYYY HH:mm").format("YYYY-MM-DDTHH:mm:ssZ")
FormatDate(record) ==
    SubSeq(record.date, 7, 10) \o "-" \o SubSeq(record.date, 4, 5) \o "-"
        \o SubSeq(record.date, 1, 2) \o "T" \o record.time \o ":00" \o UtcOffset

-----------------------------------------------------------------------------
(* The input: rows of a DEGIRO account export, with the columns the code   *)
(* reads (date, time, isin, description, currency, amount).                *)

IsinA == "IE00B3RBWM25"

IsinB == "NL0010273215"

Row(date, time, isin, description, currency, amount) ==
    [date |-> date, time |-> time, isin |-> isin, description |-> description,
     currency |-> currency, amount |-> amount]

RowFee == Row("02-01-2023", "09:04", IsinA,
              "DEGIRO Transactiekosten en/of kosten van derden", "EUR", "-2,00")
RowBuy == Row("02-01-2023", "09:04", IsinA, "Koop 10 @ 50 EUR", "EUR", "-500,00")
RowSell == Row("03-02-2023", "15:30", IsinA, "Verkoop 3 @ 33,5 USD", "USD", "100,00")
RowDividend == Row("15-03-2023", "07:12", IsinB, "Dividend", "USD", "12,50")
RowTax == Row("15-03-2023", "07:13", IsinB, "Dividendbelasting", "GBP", "-1,88")
RowIdeal == Row("01-01-2023", "12:00", "", "iDEAL Deposit", "EUR", "1000,00")
RowEmpty == Row("01-01-2023", "12:01", IsinA, "", "EUR", "0,00")
RowBareFee == Row("04-01-2023", "10:00", IsinA, "transactiekosten", "EUR", "-2.00")
RowBareBuy == Row("04-01-2023", "10:00", IsinA, "koop 10", "EUR", "-500.00")
RowOther == Row("05-01-2023", "11:00", IsinA, "Productwijziging 1/2", "EUR", "0,00")
RowNoIsin == Row("06-01-2023", "06:45", "", "FX Credit @ 1,0731", "EUR", "25,00")

RowFlatex == Row("07-01-2023", "08:00", IsinA, "flatex Interest @ 0,5%", "EUR", "-0,12")
RowCashSweep == Row("07-01-2023", "08:01", IsinA, "Degiro Cash Sweep Transfer 1/2", "EUR", "40,00")
RowWithdrawal == Row("07-01-2023", "08:02", IsinA, "Terugstorting/Withdrawal", "EUR", "-40,00")

\* The rows every claim's case is built from.
CoreRows == {RowFee, RowBuy, RowSell, RowDividend, RowTax}

Rows == CoreRows \cup {RowIdeal, RowEmpty, RowBareFee, RowBareBuy, RowOther, RowNoIsin}

\* Rows the first filter skips, with two rows that leave an entry at the tail.
NoiseRows == {RowIdeal, RowEmpty, RowFlatex, RowCashSweep, RowWithdrawal,
              RowFee, RowDividend}

\* Rows a filter or the ISIN check skips, with rows that leave an entry at the tail.
SkipRows == {RowIdeal, RowEmpty, RowBareFee, RowBareBuy, RowNoIsin,
             RowFee, RowBuy, RowDividend}

\* The well-formed pairs of an economic event: fee posting then trade, dividend then tax.
Pairs == {<<RowFee, RowBuy>>, <<RowFee, RowSell>>, <<RowDividend, RowTax>>}

SeqsUpTo(S, n) == UNION {[1..k -> S] : k \in 0..n}

RECURSIVE Flatten(_)
Flatten(ps) == IF ps = <<>> THEN <<>> ELSE Head(ps) \o Flatten(Tail(ps))

-----------------------------------------------------------------------------
(* The collaborators.                                                      *)

\* The first candidate the lookup service holds for an ISIN.
Ticker(isin) == IF isin = IsinA THEN "VWRL.AS" ELSE "ASML.AS"

\* tickers = await tickerResponse.json(): the candidates of the lookup for an ISIN.
Lookup(svc, isin) ==
    [items |-> IF isin \in svc THEN <<[symbol |-> Ticker(isin)]>> ELSE <<>>]

Statuses == {200, 401}

AccountId == "account-1"

Undefined == "undefined"

-----------------------------------------------------------------------------
(* The rules of one loop iteration.                                        *)

Last(acts) == acts[Len(acts)]

\* SetLast with the index of the first entry in place of length - 1.
SetLast_First(acts, a) == [acts EXCEPT ![1] = a]

SetLast(acts, a) == [acts EXCEPT ![Len(acts)] = a]

Ok(acts) == [activities |-> acts, threw |-> FALSE]

Throw(acts) == [activities |-> acts, threw |-> TRUE]

\* IsNoise without the "cash sweep" test.
IsNoise_NoCashSweep(description) ==
    \/ description = ""
    \/ IndexOf(description, "ideal") > -1
    \/ IndexOf(description, "flatex") > -1
    \/ IndexOf(description, "withdrawal") > -1

\* Skip some records which contains one of the words below.
IsNoise(description) ==
    \/ description = ""
    \/ IndexOf(description, "ideal") > -1
    \/ IndexOf(description, "flatex") > -1
    \/ IndexOf(description, "cash sweep") > -1
    \/ IndexOf(description, "withdrawal") > -1

\* HasKeyword that lets every record through.
HasKeyword_Always(description) == TRUE

\* HasKeyword that also lets the trade and fee words through.
HasKeyword_OrTradeWord(description) ==
    ~ (/\ IndexOf(description, "dividend") = -1
       /\ IndexOf(description, "@") = -1
       /\ IndexOf(description, "/") = -1
       /\ IndexOf(description, "koop") = -1
       /\ IndexOf(description, "transactiekosten") = -1)

\* The records that are not skipped by the second filter.
HasKeyword(description) ==
    ~ (/\ IndexOf(description, "dividend") = -1
       /\ IndexOf(description, "@") = -1
       /\ IndexOf(description, "/") = -1)

\* TaxRule without the assignment to currency.
TaxRule_KeepsCurrency(acts, record) ==
    IF acts = <<>> THEN Throw(acts)
    ELSE Ok(SetLast(acts, [Last(acts) EXCEPT !.fee = AbsAmount(record),
                                                !.comment = ""]))

\* Dividend tax: fee, currency and comment of the previous processed record.
\* activities[-1] is undefined on an empty list: the assignment throws a TypeError.
TaxRule(acts, record) ==
    IF acts = <<>> THEN Throw(acts)
    ELSE Ok(SetLast(acts, [Last(acts) EXCEPT !.fee = AbsAmount(record),
                                                !.currency = record.currency,
                                                !.comment = ""]))

\* MergeTrade without the assignment that clears the comment.
MergeTrade_KeepsMarker(acts, v, record, tickers) ==
    LET typed == SetLast(acts, [Last(acts) EXCEPT !.type = v.orderType])
    IN IF tickers.items = <<>> THEN Throw(typed)
       ELSE Ok(SetLast(typed, [Last(typed) EXCEPT
                   !.symbol = tickers.items[1].symbol,
                   !.quantity = v.numberShares,
                   !.unitPrice = v.unitPrice,
                   !.currency = record.currency]))

\* MergeTrade that pushes the completed entry instead of amending the tail.
MergeTrade_Appends(acts, v, record, tickers) ==
    IF tickers.items = <<>> THEN Throw(acts)
    ELSE Ok(Append(acts, [Last(acts) EXCEPT
                !.type = v.orderType,
                !.symbol = tickers.items[1].symbol,
                !.quantity = v.numberShares,
                !.unitPrice = v.unitPrice,
                !.currency = record.currency,
                !.comment = ""]))

\* The six assignments to activities[length - 1] of a sell or buy that follows a
\* "transactiekosten" entry. tickers.items[0] is undefined when there is no
\* candidate: reading .symbol throws after type has been assigned.
MergeTrade(acts, v, record, tickers) ==
    LET typed == SetLast(acts, [Last(acts) EXCEPT !.type = v.orderType])
    IN IF tickers.items = <<>> THEN Throw(typed)
       ELSE Ok(SetLast(typed, [Last(typed) EXCEPT
                   !.symbol = tickers.items[1].symbol,
                   !.quantity = v.numberShares,
                   !.unitPrice = v.unitPrice,
                   !.currency = record.currency,
                   !.comment = ""]))

\* exportFile.activities.push({...})
PushActivity(acts, v, record, tickers) ==
    Append(acts, [accountId |-> AccountId,
                  comment |-> v.marker,
                  fee |-> v.fees,
                  quantity |-> v.numberShares,
                  type |-> v.orderType,
                  unitPrice |-> v.unitPrice,
                  currency |-> "",
                  dataSource |-> "YAHOO",
                  date |-> FormatDate(record),
                  symbol |-> IF Len(tickers.items) > 0
                             THEN tickers.items[1].symbol ELSE ""])

\* fees = unitPrice = numberShares = 0; let marker = ""; orderType is not set.
Locals == [orderType |-> Undefined, fees |-> 0, unitPrice |-> 0,
           numberShares |-> 0, marker |-> ""]

\* if (description.indexOf("dividend") > -1) { ... }
DividendRule(v, record, description) ==
    IF IndexOf(description, "dividend") > -1
    THEN [v EXCEPT !.numberShares = 1, !.orderType = "dividend",
                   !.unitPrice = AbsAmount(record)]
    ELSE v

\* The locals a matching sale record sets.
SellLocals(v, record, verkoopMatch) ==
    LET numberShares == ParseDigits(verkoopMatch[3])
    IN [v EXCEPT !.orderType = "sell", !.numberShares = numberShares,
                 !.unitPrice = UnitPriceOf(AbsAmount(record), numberShares)]

\* The locals a matching buy record sets.
BuyLocals(v, record, koopMatch) ==
    [v EXCEPT !.orderType = "buy", !.numberShares = ParseDigits(koopMatch[3]),
              !.unitPrice = AbsAmount(record), !.marker = ""]

\* FeeRuleAndPush without the check of the ISIN.
FeeRuleAndPush_IgnoresIsin(acts, v, record, description, tickers) ==
    LET w == IF IndexOf(description, "transactiekosten") > -1
             THEN [v EXCEPT !.fees = AbsAmount(record),
                            !.marker = "transactiekosten"]
             ELSE v
    IN Ok(PushActivity(acts, w, record, tickers))

\* From the ISIN check to the push.
FeeRuleAndPush(acts, v, record, description, tickers) ==
    IF Len(record.isin) > 0
    THEN LET w == IF IndexOf(description, "transactiekosten") > -1
                  THEN [v EXCEPT !.fees = AbsAmount(record),
                                 !.marker = "transactiekosten"]
                  ELSE v
         IN Ok(PushActivity(acts, w, record, tickers))
    ELSE Ok(acts)

\* From the buy check on. activities[-1].comment throws on an empty list.
BuyRule(acts, v, record, description, tickers) ==
    LET koopMatch == RegexMatch(description, "koop ")
    IN IF koopMatch = <<>>
       THEN FeeRuleAndPush(acts, v, record, description, tickers)
       ELSE LET w == BuyLocals(v, record, koopMatch)
            IN IF acts = <<>> THEN Throw(acts)
               ELSE IF Last(acts).comment = "transactiekosten"
               THEN MergeTrade(acts, w, record, tickers)
               ELSE FeeRuleAndPush(acts, w, record, description, tickers)

\* From the sale check on.
SellRule(acts, v, record, description, tickers) ==
    LET verkoopMatch == RegexMatch(description, "verkoop ")
    IN IF verkoopMatch = <<>>
       THEN BuyRule(acts, v, record, description, tickers)
       ELSE LET w == SellLocals(v, record, verkoopMatch)
            IN IF acts = <<>> THEN Throw(acts)
               ELSE IF Last(acts).comment = "transactiekosten"
               THEN MergeTrade(acts, w, record, tickers)
               ELSE BuyRule(acts, w, record, description, tickers)

\* The body of the loop after the lookup answered: the new activity list, and
\* whether a TypeError ended the callback.
Rules(acts, record, description, tickers) ==
    IF IndexOf(description, "dividendbelasting") > -1
    THEN TaxRule(acts, record)
    ELSE SellRule(acts, DividendRule(Locals, record, description),
                  record, description, tickers)

\* ShouldExport without the guard.
ShouldExport_Always(err) == TRUE

\* if (!errorExport)
ShouldExport(err) == ~err

\* JSON.stringify(exportFile): a property whose value is undefined is left out.
Stringify(acts) ==
    [meta |-> [version |-> "v0"],
     activities |-> [i \in 1..Len(acts) |->
        IF acts[i].type = Undefined
        THEN [f \in DOMAIN acts[i] \ {"type"} |-> acts[i][f]]
        ELSE acts[i]]]

-----------------------------------------------------------------------------
(* The state machine.                                                      *)

InitState ==
    /\ pc = "start"
    /\ bearer = ""
    /\ idx = 0
    /\ activities = <<>>
    /\ errorExport = FALSE
    /\ lookups = <<>>
    /\ snapshots = <<>>
    /\ output = <<>>

Init ==
    /\ records \in SeqsUpTo(Rows, MaxRecords)
    /\ known \in SUBSET {IsinA, IsinB}
    /\ InitState

\* await fetch(.../auth/anonymous/...); bearer = await bearerResponse.json()
FetchBearer ==
    /\ pc = "start"
    /\ pc' = "loop"
    /\ bearer' = "token"
    /\ UNCHANGED <<records, known, idx, activities, errorExport, lookups,
                   snapshots, output>>

\* One iteration of the for loop.
Iterate ==
    /\ pc = "loop"
    /\ idx < Len(records)
    /\ snapshots' = Append(snapshots, activities)
    /\ LET record == records[idx + 1]
           description == ToLocaleLowerCase(record.description)
       IN IF IsNoise(description) \/ ~HasKeyword(description)
          THEN /\ idx' = idx + 1
               /\ UNCHANGED <<pc, activities, errorExport, lookups>>
          ELSE /\ lookups' = Append(lookups, idx)
               /\ \E status \in Statuses :
                    IF status = 401
                    THEN /\ errorExport' = TRUE
                         /\ pc' = "export"
                         /\ UNCHANGED <<idx, activities>>
                    ELSE LET r == Rules(activities, record, description,
                                        Lookup(known, record.isin))
                         IN /\ activities' = r.activities
                            /\ pc' = IF r.threw THEN "crashed" ELSE "loop"
                            /\ idx' = IF r.threw THEN idx ELSE idx + 1
                            /\ UNCHANGED errorExport
    /\ UNCHANGED <<records, known, bearer, output>>

\* idx < records.length fails: the loop ends.
LoopEnd ==
    /\ pc = "loop"
    /\ idx >= Len(records)
    /\ pc' = "export"
    /\ UNCHANGED <<records, known, bearer, idx, activities, errorExport,
                   lookups, snapshots, output>>

\* progress.stop(); if (!errorExport) { fs.writeFileSync(...) }
Export ==
    /\ pc = "export"
    /\ pc' = "done"
    /\ output' = IF ShouldExport(errorExport)
                 THEN Append(output, Stringify(activities))
                 ELSE output
    /\ UNCHANGED <<records, known, bearer, idx, activities, errorExport,
                   lookups, snapshots>>

Next == FetchBearer \/ Iterate \/ LoopEnd \/ Export

Spec == Init /\ [][Next]_vars

\* The same program on inputs made of the core rows only.
InitCore ==
    /\ records \in SeqsUpTo(CoreRows, MaxCore)
    /\ known \in SUBSET {IsinA, IsinB}
    /\ InitState

SpecCore == InitCore /\ [][Next]_vars

\* The same program on sequences of well-formed pairs whose ISINs the lookup knows.
InitPairs ==
    /\ records \in {Flatten(ps) : ps \in SeqsUpTo(Pairs, MaxPairs)}
    /\ known = {IsinA, IsinB}
    /\ InitState

SpecPairs == InitPairs /\ [][Next]_vars

\* The same program on inputs made of noise rows around a fee posting or a dividend.
InitNoise ==
    /\ records \in SeqsUpTo(NoiseRows, MaxNoise)
    /\ known \in SUBSET {IsinA, IsinB}
    /\ InitState

SpecNoise == InitNoise /\ [][Next]_vars

\* The same program on inputs made of skipped rows around fee postings, buys and dividends.
InitSkips ==
    /\ records \in SeqsUpTo(SkipRows, MaxSkips)
    /\ known \in SUBSET {IsinA, IsinB}
    /\ InitState

SpecSkips == InitSkips /\ [][Next]_vars

-----------------------------------------------------------------------------
(* Vocabulary of the properties. Record j is records[j] (1-based): its     *)
(* iteration is the one with idx = j - 1.                                  *)

Desc(j) == ToLocaleLowerCase(records[j].description)

\* The activity list as the iteration on record j began, and as it ended.
Before(j) == snapshots[j]

After(j) == IF Len(snapshots) > j THEN snapshots[j + 1] ELSE activities

\* The iteration on record j ran to its end (a continue or the push).
Completed(j) == idx >= j

\* The iteration on record j ended in a TypeError.
Crashed(j) == pc = "crashed" /\ idx = j - 1

\* Record j passes both filters, so its lookup is issued and the rules see it.
ReachesRules(j) == ~IsNoise(Desc(j)) /\ HasKeyword(Desc(j))

\* Record j was handled by the rules: its lookup did not answer 401.
Handled(j) == ReachesRules(j) /\ (Completed(j) \/ Crashed(j))

IsFeePosting(j) ==
    /\ Len(records[j].isin) > 0
    /\ IndexOf(Desc(j), "transactiekosten") > -1

IsSellRecord(j) == RegexMatch(Desc(j), "verkoop ") # <<>>

IsBuyRecord(j) == RegexMatch(Desc(j), "koop ") # <<>> /\ ~IsSellRecord(j)

IsTaxRecord(j) == IndexOf(Desc(j), "dividendbelasting") > -1

IsDividendRecord(j) ==
    /\ IndexOf(Desc(j), "dividend") > -1
    /\ ~IsTaxRecord(j) /\ ~IsSellRecord(j) /\ ~IsBuyRecord(j)
    /\ Len(records[j].isin) > 0

TradeKind(j) == IF IsSellRecord(j) THEN "sell" ELSE "buy"

TradeCount(j) ==
    ParseDigits(RegexMatch(Desc(j), IF IsSellRecord(j) THEN "verkoop " ELSE "koop ")[3])

NoPendingFee(acts) == acts = <<>> \/ Last(acts).comment # "transactiekosten"

-----------------------------------------------------------------------------
(* C1. A fee posting (non-empty ISIN, transaction-fee description)         *)
(* directly followed by a buy or sell record of the same ISIN adds exactly *)
(* one activity over the two records, with the kind and quantity of the    *)
(* trade record, a unit price from its amount and the fee record's         *)
(* absolute amount as fee; so do the rows 'transactiekosten', 'koop 10'.   *)
C1_FeeThenTradeIsOneActivity ==
    \A j \in 1..(Len(records) - 1) :
        ( /\ IsFeePosting(j)
          /\ IsSellRecord(j + 1) \/ IsBuyRecord(j + 1)
          /\ records[j + 1].isin = records[j].isin
          /\ Completed(j + 1) \/ Crashed(j + 1) )
        => /\ Len(After(j + 1)) = Len(Before(j)) + 1
           /\ LET a == Last(After(j + 1))
                  total == AbsAmount(records[j + 1])
              IN /\ a.type = TradeKind(j + 1)
                 /\ a.quantity = TradeCount(j + 1)
                 /\ a.unitPrice \in {total, UnitPriceOf(total, TradeCount(j + 1))}
                 /\ a.fee = AbsAmount(records[j])

(* C2. A buy or sell record with a non-empty ISIN that the rules handle    *)
(* while no pending-fee entry is at the tail (empty list, or a last        *)
(* activity without the 'transactiekosten' marker) lets the run continue   *)
(* and appends exactly one activity, with fee 0 and the record's quantity. *)
C2_StandaloneTradeAppendsOne ==
    \A j \in 1..Len(records) :
        ( /\ IsSellRecord(j) \/ IsBuyRecord(j)
          /\ Len(records[j].isin) > 0
          /\ Handled(j)
          /\ NoPendingFee(Before(j)) )
        => /\ Completed(j)
           /\ Len(After(j)) = Len(Before(j)) + 1
           /\ SubSeq(After(j), 1, Len(Before(j))) = Before(j)
           /\ Last(After(j)).fee = 0
           /\ Last(After(j)).quantity = TradeCount(j)

(* C3. A record matching the sell pattern results in an activity of kind   *)
(* sell and a record matching only the buy pattern in one of kind buy,     *)
(* merged or standalone; a sell record never yields kind buy.              *)
C3_KindFollowsPattern ==
    \A j \in 1..Len(records) :
        ( /\ IsSellRecord(j) \/ IsBuyRecord(j)
          /\ Len(records[j].isin) > 0
          /\ ReachesRules(j)
          /\ Completed(j) )
        => /\ After(j) # <<>>
           /\ Last(After(j)).type = TradeKind(j)

(* C4. No activity of a written file is a standalone bookkeeping entry:    *)
(* none carries the marker 'transactiekosten' and none lacks a kind.       *)
C4_NoBookkeepingEntryWritten ==
    \A k \in 1..Len(output) :
        \A i \in 1..Len(output[k].activities) :
            LET a == output[k].activities[i]
            IN /\ a.comment # "transactiekosten"
               /\ "type" \in DOMAIN a
               /\ a.type \in {"buy", "sell", "dividend"}

(* C5. Once a lookup has answered 401 no further record is processed, no  *)
(* further lookup is issued and the file is never written; the file is     *)
(* written at most once, and only when every record has been processed     *)
(* without a 401.                                                          *)
C5_AbortOn401 ==
    [][ /\ (errorExport' /\ ~errorExport)
            => /\ activities' = activities
               /\ idx' = idx
               /\ lookups' = Append(lookups, idx)
               /\ output' = <<>>
        /\ errorExport
            => /\ errorExport'
               /\ activities' = activities
               /\ idx' = idx
               /\ lookups' = lookups
               /\ snapshots' = snapshots
               /\ output' = <<>>
        /\ Len(output') <= 1
        /\ output' # output
            => /\ ~errorExport
               /\ idx = Len(records) ]_vars

\* A 401 on the second of three records: the run is over and nothing was written.
C5_Witness ==
    /\ errorExport
    /\ pc = "done"
    /\ Len(records) = 3
    /\ idx = 1
    /\ activities # <<>>
    /\ output = <<>>

(* C6. A lookup with zero candidates for a dividend, buy or sell record    *)
(* does not fail the run: the resulting activity has an empty symbol and   *)
(* processing continues, for an appended activity and for a buy or sell    *)
(* merged into a pending-fee entry at the tail.                            *)
C6_ZeroCandidatesNonFatal ==
    \A j \in 1..Len(records) :
        ( /\ IsDividendRecord(j) \/ IsSellRecord(j) \/ IsBuyRecord(j)
          /\ Len(records[j].isin) > 0
          /\ Lookup(known, records[j].isin).items = <<>>
          /\ Handled(j)
          /\ Before(j) # <<>> )
        => /\ Completed(j)
           /\ Last(After(j)).symbol = ""

(* C7. A dividend record with a non-empty ISIN directly followed by its    *)
(* dividend-tax record adds exactly one activity: kind dividend, unit      *)
(* price the dividend's absolute amount, fee the tax record's absolute     *)
(* amount, currency the tax record's, marker empty; the tax record appends *)
(* nothing and leaves kind, symbol, quantity, unit price and date as they  *)
(* were.                                                                   *)
C7_DividendThenTax ==
    \A j \in 1..(Len(records) - 1) :
        ( /\ Completed(j + 1)
          /\ IsDividendRecord(j)
          /\ IsTaxRecord(j + 1) )
        => /\ Len(After(j)) = Len(Before(j)) + 1
           /\ Len(After(j + 1)) = Len(After(j))
           /\ SubSeq(After(j + 1), 1, Len(Before(j))) = Before(j)
           /\ LET d == Last(After(j))
                  a == Last(After(j + 1))
              IN /\ a.type = "dividend"
                 /\ a.unitPrice = AbsAmount(records[j])
                 /\ a.fee = AbsAmount(records[j + 1])
                 /\ a.currency = records[j + 1].currency
                 /\ a.comment = ""
                 /\ a.type = d.type
                 /\ a.symbol = d.symbol
                 /\ a.quantity = d.quantity
                 /\ a.unitPrice = d.unitPrice
                 /\ a.date = d.date

\* RowDividend (12,50 USD) then RowTax (-1,88 GBP) behind one earlier activity.
C7_Witness ==
    /\ Len(records) = 3
    /\ records[2] = RowDividend
    /\ records[3] = RowTax
    /\ pc = "done"
    /\ Len(output) = 1
    /\ Len(activities) = 2
    /\ activities[2].type = "dividend"
    /\ activities[2].unitPrice = 12500
    /\ activities[2].fee = 1880
    /\ activities[2].currency = "GBP"
    /\ activities[2].symbol = "ASML.AS"
    /\ activities[2].date = "2023-03-15T07:12:00+00:00"

(* C8. A dividend-tax record handled while the list is empty or while the  *)
(* last activity is not a dividend is reported as an error: no             *)
(* out-of-range access on the list (a TypeError) and no silent change of   *)
(* the fee or currency of a non-dividend activity.                         *)
C8_TaxNeedsDividendTail ==
    \A j \in 1..Len(records) :
        ( /\ IsTaxRecord(j)
          /\ Handled(j)
          /\ Before(j) = <<>> \/ Last(Before(j)).type # "dividend" )
        => /\ ~Crashed(j)
           /\ After(j) = Before(j)

(* C9. N well-formed pairs (fee posting then trade, dividend then tax) in  *)
(* any order, with ISINs the lookup knows, give a written file of exactly  *)
(* N activities, each with a non-empty symbol.                             *)
C9_PairsRoundTrip ==
    \A k \in 1..Len(output) :
        LET acts == output[k].activities
        IN /\ 2 * Len(acts) = Len(records)
           /\ \A i \in 1..Len(acts) :
                /\ acts[i].symbol # ""
                /\ "type" \in DOMAIN acts[i]

\* Three pairs of different kinds, written as three activities.
C9_Witness ==
    /\ Len(output) = 1
    /\ Len(records) = 6
    /\ records[1] = RowDividend
    /\ records[3] = RowFee /\ records[4] = RowSell
    /\ records[5] = RowFee /\ records[6] = RowBuy
    /\ Len(output[1].activities) = 3
    /\ output[1].activities[2].type = "sell"
    /\ output[1].activities[2].quantity = 3
    /\ output[1].activities[2].unitPrice = 33333
    /\ output[1].activities[3].type = "buy"
    /\ output[1].activities[3].quantity = 10
    /\ output[1].activities[3].unitPrice = 500000
    /\ output[1].activities[3].fee = 2000

(* C10. Processing a record changes at most the tail: an activity that was *)
(* not among the last two entries when an iteration began is identical in  *)
(* every later state, never modified and never removed.                    *)
C10_OnlyTailChanges ==
    \A j \in 1..Len(snapshots) :
        \A i \in 1..(Len(snapshots[j]) - 2) :
            /\ i <= Len(activities)
            /\ activities[i] = snapshots[j][i]

\* A record amends the tail of a list of three activities.
C10_Witness ==
    /\ Len(snapshots) >= 1
    /\ Len(snapshots[Len(snapshots)]) = 3
    /\ Len(activities) = 3
    /\ activities # snapshots[Len(snapshots)]
    /\ pc = "loop"


-----------------------------------------------------------------------------
(* The kinds of record, stated on the description alone.                   *)

Contains(j, word) == IndexOf(Desc(j), word) > -1

\* The iteration on record j has begun.
Examined(j) == Len(snapshots) >= j

\* A lookup was issued for record j.
LookedUp(j) == \E k \in 1..Len(lookups) : lookups[k] = j - 1

NoiseMarkers == {"ideal", "flatex", "cash sweep", "withdrawal"}

IsNoiseRecord(j) == Desc(j) = "" \/ \E m \in NoiseMarkers : Contains(j, m)

(* C11. A record whose description is empty or contains 'ideal', 'flatex', *)
(* 'cash sweep' or 'withdrawal' produces no activity and leaves the whole  *)
(* list, its tail and the tail's marker included, unchanged, whatever its  *)
(* other fields and whatever the list.                                     *)
C11_NoiseLeavesListUnchanged ==
    \A j \in 1..Len(records) :
        (Examined(j) /\ IsNoiseRecord(j))
        => /\ Completed(j)
           /\ After(j) = Before(j)
           /\ ~LookedUp(j)

\* A cash-sweep row with an ISIN and a '/' was passed over behind a pending fee.
C11_Witness ==
    /\ Len(records) = 3
    /\ records[1] = RowFee
    /\ records[2] = RowCashSweep
    /\ records[3] = RowFlatex
    /\ pc = "done"
    /\ Len(activities) = 1
    /\ activities[1].comment = "transactiekosten"
    /\ Len(output) = 1


\* Record j carries none of the markers a rule looks for.
NoRuleMarker(j) ==
    /\ ~Contains(j, "dividend")
    /\ RegexMatch(Desc(j), "verkoop ") = <<>>
    /\ RegexMatch(Desc(j), "koop ") = <<>>
    /\ ~Contains(j, "transactiekosten")

(* C12. A record with a non-empty ISIN whose description matches no rule   *)
(* (not noise, not dividend tax, not dividend, not sell, not buy, not a    *)
(* transaction fee) is skipped: it appends no activity and changes none,   *)
(* whatever other characters ('@', '/') its description contains.          *)
C12_UnmatchedRecordSkipped ==
    \A j \in 1..Len(records) :
        ( /\ Len(records[j].isin) > 0
          /\ ~IsNoiseRecord(j)
          /\ NoRuleMarker(j)
          /\ Examined(j) )
        => After(j) = Before(j)

(* C13. A record with an empty ISIN and no recognized marker (dividend,    *)
(* dividend tax, buy, sell, fee) produces no activity and leaves the list  *)
(* unchanged, regardless of the rest of its description.                   *)
C13_NoIsinNoMarkerSkipped ==
    \A j \in 1..Len(records) :
        ( /\ Examined(j)
          /\ records[j].isin = ""
          /\ NoRuleMarker(j) )
        => /\ ~Crashed(j)
           /\ After(j) = Before(j)

\* 'FX Credit @ 1,0731' without ISIN was looked up and passed over behind a pending fee.
C13_Witness ==
    /\ Len(records) = 2
    /\ records[1] = RowFee
    /\ records[2] = RowNoIsin
    /\ lookups = <<0, 1>>
    /\ pc = "done"
    /\ Len(activities) = 1
    /\ activities[1].comment = "transactiekosten"


\* Record j has one of the keywords the second filter asks for.
HasFilterKeyword(j) == Contains(j, "dividend") \/ Contains(j, "@") \/ Contains(j, "/")

\* Record j is a buy or sell record that the rules get to see.
IsTradeSeen(j) ==
    /\ IsSellRecord(j) \/ IsBuyRecord(j)
    /\ ~IsTaxRecord(j)
    /\ ~IsNoiseRecord(j)
    /\ HasFilterKeyword(j)

(* C14. A pending-fee entry is consumed by at most one trade record: a buy *)
(* or sell merged into a tail entry with the marker 'transactiekosten'     *)
(* leaves the length and the entry's fee unchanged and clears the marker,  *)
(* so a buy or sell that follows directly is appended as a separate        *)
(* activity with fee 0 (fee, trade, trade gives two activities).           *)
C14_PendingFeeConsumedOnce ==
    \A j \in 1..Len(records) :
        ( /\ Completed(j)
          /\ ~NoPendingFee(Before(j))
          /\ IsTradeSeen(j) )
        => /\ Len(After(j)) = Len(Before(j))
           /\ Last(After(j)).fee = Last(Before(j)).fee
           /\ Last(After(j)).comment = ""
           /\ ( /\ j < Len(records)
                /\ Completed(j + 1)
                /\ Len(records[j + 1].isin) > 0
                /\ IsTradeSeen(j + 1) )
              => /\ Len(After(j + 1)) = Len(After(j)) + 1
                 /\ SubSeq(After(j + 1), 1, Len(After(j))) = After(j)
                 /\ Last(After(j + 1)).fee = 0

\* Fee posting, buy, sale: the buy took the fee, the sale stands alone with fee 0.
C14_Witness ==
    /\ records = <<RowFee, RowBuy, RowSell>>
    /\ pc = "done"
    /\ Len(activities) = 2
    /\ activities[1].fee = 2000
    /\ activities[1].quantity = 10
    /\ activities[1].comment = ""
    /\ activities[2].fee = 0
    /\ activities[2].quantity = 3


\* Record j is skipped by the noise filter or by the keyword prefilter.
IsFiltered(j) == IsNoiseRecord(j) \/ ~HasFilterKeyword(j)

(* C15. Lookups are issued strictly in record order, at most once per      *)
(* record and only after the bearer token was fetched; a record skipped by *)
(* the noise filter or the keyword prefilter causes no lookup; the loop    *)
(* moves past a record only with that record's lookup done.                *)
C15_LookupsInRecordOrder ==
    [][ /\ lookups' # lookups
            => /\ lookups' = Append(lookups, idx)
               /\ idx < Len(records)
               /\ bearer # ""
               /\ ~IsFiltered(idx + 1)
               /\ \A k \in 1..Len(lookups) : lookups[k] < idx
        /\ idx' # idx
            => /\ idx' = idx + 1
               /\ idx < Len(records)
               /\ IF IsFiltered(idx + 1)
                  THEN lookups' = lookups
                  ELSE lookups' = Append(lookups, idx) ]_vars

\* Three records, the second one skipped by the keyword prefilter: two lookups.
C15_Witness ==
    /\ Len(records) = 3
    /\ records[2] = RowBareBuy
    /\ lookups = <<0, 2>>
    /\ bearer # ""
    /\ pc = "done"


(* C16. A record whose lower-cased description contains none of 'dividend', *)
(* '@' and '/' is skipped before any rule: no lookup, no activity, list    *)
(* unchanged, even with an ISIN and a buy, sell or transaction-fee word.   *)
C16_PrefilterSkips ==
    \A j \in 1..Len(records) :
        (Examined(j) /\ ~HasFilterKeyword(j))
        => /\ Completed(j)
           /\ After(j) = Before(j)
           /\ ~LookedUp(j)

\* 'koop 10' and 'transactiekosten' with an ISIN were passed over behind a pending fee.
C16_Witness ==
    /\ records = <<RowFee, RowBareBuy, RowBareFee>>
    /\ pc = "done"
    /\ lookups = <<0>>
    /\ Len(activities) = 1
    /\ activities[1].comment = "transactiekosten"
    /\ activities[1].quantity = 0

(* C17. When every input record has a non-empty currency code, every       *)
(* activity of kind buy, sell or dividend in the written file has a        *)
(* non-empty currency, a buy or sell without pending fee and a dividend    *)
(* without dividend tax included.                                          *)
C17_WrittenActivitiesHaveCurrency ==
    (\A j \in 1..Len(records) : records[j].currency # "")
    => \A k \in 1..Len(output) :
           \A i \in 1..Len(output[k].activities) :
               LET a == output[k].activities[i]
               IN ("type" \in DOMAIN a /\ a.type \in {"buy", "sell", "dividend"})
                  => a.currency # ""

====
